---- MODULE Spec2Model ----
(***************************************************************************)
(* State-machine model of the password manager's vault, session and idle   *)
(* timer (AppProvider in the application context) together with the        *)
(* CryptoManager / BiometricManager calls it makes.                         *)
(*                                                                         *)
(* One action is one handler of the program run to completion: the         *)
(* dispatches it makes, the re-render, and the effects of AppProvider that *)
(* the re-render triggers (the save effect and the auto-lock effect).      *)
(* The asynchronous part of saveData (CryptoManager.encrypt followed by    *)
(* localStorage.setItem) is a separate step, SaveComplete, so that saves   *)
(* in flight can finish in any order.  Timers set with setTimeout are kept *)
(* in a set of pending timers and fire in a step of their own.             *)
(*                                                                         *)
(* Abstractions: AES-GCM/PBKDF2 is symbolic (a blob records the passphrase *)
(* it was encrypted with and whether it is intact); a timestamp is kept as *)
(* its JavaScript representation (Date object or ISO string), not as an    *)
(* instant; SHA-256 is an injective tagging of the passphrase; of Settings *)
(* the field autoLockMinutes is kept; the copy of a blob kept as biometric *)
(* fallback is kept as the passphrase the blob was encrypted with.         *)
(***************************************************************************)
EXTENDS Integers, Sequences, FiniteSets, TLC

Null == "null"           \* null / undefined where the other values are strings
None == <<>>            \* null where the other values are records
Some(x) == <<x>>
The(o) == o[1]

\* ------------------------------------------------------------------ bounds
MaxId == 2            \* ids crypto.randomUUID() hands out to entries
MaxPending == 2       \* saveData calls in flight at once
MaxTimerId == 2       \* handles setTimeout has to choose from
TickMinutes == 5      \* wall-clock minutes one Tick step stands for
MaxDay == 2           \* days the clock of new Date() advances
MaxImport == 2        \* entries a file handed to importData lists
MaxCore == 3          \* characters of a sampled secret before its padding
MaxPad == 12          \* padding characters of a sampled secret
MaxEntries == 3       \* entries of an analysed collection

\* ------------------------------------------------------------ input domains
Pass == {"pA", "pB"}                    \* master passphrases a user types
Secrets == {"abc", "Xy9!"}              \* secret values of entries
CustomCategories == {"Custom"}          \* names given to addCategory
Handles == {"user_1"}                   \* handles setupBiometric registers
AutoLockOptions == {0, 5, 15}           \* the select of the settings dialog

\* ------------------------------------------------------- program constants
DefaultAutoLockMinutes == 15
defaultCategories == <<"Personal", "Work", "Social", "Finance", "Shopping">>
defaultSettings == [autoLockMinutes |-> DefaultAutoLockMinutes]

\* pwInitial / stDefault: whether state.passwords / state.settings still are
\* the objects of initialState (React compares effect dependencies by
\* reference, and LOGOUT / CLEAR_ALL_DATA put those very objects back).
initialState ==
    [isAuthenticated |-> FALSE,
     passwords       |-> <<>>,
     categories      |-> defaultCategories,
     settings        |-> defaultSettings,
     pwInitial       |-> TRUE,
     stDefault       |-> TRUE]

\* ------------------------------------------------------------------ helpers
getUserHash(p) == "sha256(" \o p \o ")"
Hashes == {getUserHash(p) : p \in Pass \cup {""}}
StoreKeys == Hashes \cup Handles        \* what currentUserHash can hold
getUserStorageKey(userHash) == userHash \* passwordManager_<userHash>

Range(s) == {s[i] : i \in 1..Len(s)}

RECURSIVE SelectSeqBy(_, _)
SelectSeqBy(s, keep) ==
    IF s = <<>> THEN <<>>
    ELSE IF Head(s) \in keep THEN <<Head(s)>> \o SelectSeqBy(Tail(s), keep)
         ELSE SelectSeqBy(Tail(s), keep)

\* JSON.stringify of a Date gives its ISO string (Date.prototype.toJSON).
ToJSONDate(d) == IF d = "Date" THEN "ISOString" ELSE d

StringifyEntry(e) ==
    [e EXCEPT !.createdAt = ToJSONDate(e.createdAt),
              !.updatedAt = ToJSONDate(e.updatedAt)]

\* JSON.stringify of the vault object saveData / signup build: a text.
Stringify(pws, cats, sett) ==
    <<"json", [passwords  |-> [i \in 1..Len(pws) |-> StringifyEntry(pws[i])],
               categories |-> cats,
               settings   |-> sett,
               version    |-> "2.0"]>>

\* JSON.parse: the object the text spells, without a reviver (strings stay
\* strings).
Parse(json) == json[2]

\* CryptoManager.encrypt: a blob only the same passphrase opens.
Encrypt(data, password) == [key |-> password, data |-> data, intact |-> TRUE]

\* CryptoManager.decrypt: the plaintext, or None (it throws) for a wrong
\* passphrase or a blob that is not what encrypt produced.
Decrypt(blob, password) ==
    IF blob.intact /\ blob.key = password THEN Some(blob.data) ELSE None

Min(a, b) == IF a <= b THEN a ELSE b
Max(a, b) == IF a >= b THEN a ELSE b

\* ---------------------------------------------------------------- variables
VARIABLES
    state,         \* the reducer's AppState (the fields the core uses)
    session,       \* sessionStorage: masterPassword, currentUserHash
    vault,         \* localStorage: passwordManager_<hash> -> blob
    users,         \* localStorage: passwordManager_users, the registry
    fallback,      \* localStorage: biometric_fallback_<handle> -> value
    credentials,   \* localStorage: biometric_<handle>, registered handles
    pendingSaves,  \* saveData calls waiting on CryptoManager.encrypt, in the
                   \* order they were made; stale (history): a call made
                   \* later for the same key has stored its blob already
    timers,        \* timers set with setTimeout and not yet fired or cleared
    timeout,       \* the auto-lock effect's variable `timeout` (0: none)
    nextId,        \* the next id crypto.randomUUID() gives an entry
    ret,           \* the call of login / signup / importData the last step
                   \* made, with what it returned or, for importData, whether
                   \* the import dialog reports success (None after any other
                   \* step)
    idle,          \* history: minutes since the last activity signal or unlock
    signalled,     \* history: an activity signal arrived since the last unlock
    lockEvents,    \* history: logouts the idle timer made since the last unlock
    atLogout,      \* history: what was in memory at the last logout, if no
                   \* save was in flight then
    now,           \* the day new Date() reads
    subject,       \* the entries handed to the SecurityAnalyzer
    report,        \* what the last call of the SecurityAnalyzer returned
    outbound,      \* the requests that call sent with fetch
    cipher         \* the last call of CryptoManager.encrypt / decrypt made on
                   \* its own: its arguments and what it returned or threw

vars == <<state, session, vault, users, fallback, credentials, pendingSaves,
          timers, timeout, nextId, ret, idle, signalled, lockEvents, atLogout,
          now, subject, report, outbound, cipher>>

\* What the vault's handlers leave alone.
analyzer == <<now, subject, report, outbound, cipher>>

noSession == [masterPassword |-> Null, currentUserHash |-> Null]

Init ==
    /\ state = initialState
    /\ session = noSession
    /\ vault = [k \in StoreKeys |-> None]
    /\ users = <<>>
    /\ fallback = [k \in StoreKeys |-> None]
    /\ credentials = {}
    /\ pendingSaves = <<>>
    /\ timers = {}
    /\ timeout = 0
    /\ nextId = 1
    /\ ret = None
    /\ idle = 0
    /\ signalled = FALSE
    /\ lockEvents = 0
    /\ atLogout = None
    /\ now = 0
    /\ subject = <<>>
    /\ report = None
    /\ outbound = <<>>
    /\ cipher = None

\* ------------------------------------------------------------------ reducer
LOGIN(s) == [s EXCEPT !.isAuthenticated = TRUE]

\* LOGOUT that only drops the flag.
LOGOUT_KeepsEntries(s) == [s EXCEPT !.isAuthenticated = FALSE]

LOGOUT(s) == initialState

SET_PASSWORDS(s, payload) ==
    [s EXCEPT !.passwords = payload, !.pwInitial = FALSE]

ADD_PASSWORD(s, payload) ==
    [s EXCEPT !.passwords = Append(s.passwords, payload), !.pwInitial = FALSE]

UPDATE_PASSWORD(s, payload) ==
    [s EXCEPT !.passwords = [i \in 1..Len(s.passwords) |->
                                IF s.passwords[i].id = payload.id
                                THEN payload ELSE s.passwords[i]],
              !.pwInitial = FALSE]

DELETE_PASSWORD(s, id) ==
    [s EXCEPT !.passwords =
                  SelectSeqBy(s.passwords, {e \in Range(s.passwords) : e.id # id}),
              !.pwInitial = FALSE]

ADD_CATEGORY(s, payload) ==
    [s EXCEPT !.categories = Append(s.categories, payload)]

\* { ...state.settings, ...action.payload }: payload is a Partial<Settings>.
UPDATE_SETTINGS(s, payload) ==
    [s EXCEPT !.settings = [f \in DOMAIN s.settings |->
                               IF f \in DOMAIN payload THEN payload[f]
                               ELSE s.settings[f]],
              !.stDefault = FALSE]

CLEAR_ALL_DATA(s) == [initialState EXCEPT !.isAuthenticated = TRUE]

\* ------------------------------------------------------------------- timers
\* clearTimeout that cancels nothing.
clearTimeout_Noop(ts, id) == ts

clearTimeout(ts, id) == {t \in ts : t.id # id}

setTimeout(ts, id, delay) == ts \cup {[id |-> id, delay |-> delay, elapsed |-> 0]}

FreeIds(ts) == (1..MaxTimerId) \ {t.id : t \in ts}

\* resetTimeout that lets a timer that is already running run on.
resetTimeout_KeepsRunning(ts, cur, minutes) ==
    LET id == CHOOSE i \in FreeIds(ts) : \A j \in FreeIds(ts) : i <= j
    IN  IF \E t \in ts : t.id = cur
        THEN [timers |-> ts, timeout |-> cur]
        ELSE IF FreeIds(ts) = {}
        THEN [timers |-> ts, timeout |-> 0]
        ELSE [timers |-> setTimeout(ts, id, minutes), timeout |-> id]

\* resetTimeout of the auto-lock effect: clear the timer `timeout` names, set
\* a new one for autoLockMinutes and keep its handle.
resetTimeout(ts, cur, minutes) ==
    LET cleared == clearTimeout(ts, cur)
        id == CHOOSE i \in FreeIds(cleared) : \A j \in FreeIds(cleared) : i <= j
    IN  IF FreeIds(cleared) = {}
        THEN [timers |-> cleared, timeout |-> 0]      \* out of the model's handles
        ELSE [timers |-> setTimeout(cleared, id, minutes), timeout |-> id]

\* The auto-lock effect without its cleanup function.
AutoLockEffect_NoCleanup(old, new, ts, cur) ==
    LET changed == \/ old.isAuthenticated # new.isAuthenticated
                   \/ old.settings.autoLockMinutes # new.settings.autoLockMinutes
        isOn    == new.isAuthenticated /\ new.settings.autoLockMinutes > 0
    IN  IF ~changed THEN [timers |-> ts, timeout |-> cur]
        ELSE IF isOn THEN resetTimeout(ts, 0, new.settings.autoLockMinutes)
        ELSE [timers |-> ts, timeout |-> 0]

\* The auto-lock effect (dependencies isAuthenticated, autoLockMinutes): on a
\* change the previous run's cleanup clears its timer, then the effect runs.
AutoLockEffect(old, new, ts, cur) ==
    LET changed == \/ old.isAuthenticated # new.isAuthenticated
                   \/ old.settings.autoLockMinutes # new.settings.autoLockMinutes
        wasOn   == old.isAuthenticated /\ old.settings.autoLockMinutes > 0
        isOn    == new.isAuthenticated /\ new.settings.autoLockMinutes > 0
        cleaned == IF wasOn THEN clearTimeout(ts, cur) ELSE ts
    IN  IF ~changed THEN [timers |-> ts, timeout |-> cur]
        ELSE IF isOn THEN resetTimeout(cleaned, 0, new.settings.autoLockMinutes)
        ELSE [timers |-> cleaned, timeout |-> 0]

\* ------------------------------------------------------------------- saving
\* The synchronous part of saveData: read the session, build the JSON text.
\* The result is the call left waiting on encrypt, or Null when the session
\* lacks the passphrase or the hash.
saveData(s, sess) ==
    IF sess.masterPassword # Null /\ sess.currentUserHash # Null
    THEN Some([master |-> sess.masterPassword,
               key    |-> sess.currentUserHash,
               data   |-> Stringify(s.passwords, s.categories, s.settings),
               stale  |-> FALSE])
    ELSE None

\* The save effect's dependencies: state.passwords, state.settings (compared
\* by reference) and state.isAuthenticated.
SaveDepsChanged(old, new, pwNew, stNew) ==
    \/ old.isAuthenticated # new.isAuthenticated
    \/ pwNew
    \/ stNew

SaveEffect(old, new, pwNew, stNew, sess) ==
    IF SaveDepsChanged(old, new, pwNew, stNew) /\ new.isAuthenticated
    THEN saveData(new, sess)
    ELSE None

\* A re-render after the handler's dispatches: the new state and the effects.
\* pwNew / stNew: state.passwords / state.settings is another object than at
\* the previous render.
Render(new, pwNew, stNew, sess, ts) ==
    LET save == SaveEffect(state, new, pwNew, stNew, sess)
        tm   == AutoLockEffect(state, new, ts, timeout)
    IN  /\ state' = new
        /\ IF save = None
           THEN UNCHANGED pendingSaves
           ELSE /\ Len(pendingSaves) < MaxPending
                /\ pendingSaves' = Append(pendingSaves, The(save))
        /\ (new.isAuthenticated /\ new.settings.autoLockMinutes > 0) => tm.timeout # 0
        /\ timers' = tm.timers
        /\ timeout' = tm.timeout

\* --------------------------------------------------------------- user list
\* hint: first 3 characters and the length; the passphrases of the model
\* differ in both or neither, so the passphrase stands for its hint.
Hint(p) == <<"hint", p>>

\* new Date().toISOString() on day t.
toISOString(t) == <<"iso", t>>

\* addUserToList without the look-up of an existing record.
addUserToList_AlwaysPush(us, userHash, masterPassword) ==
    Append(us, [hash      |-> userHash,
                createdAt |-> toISOString(now),
                lastLogin |-> toISOString(now),
                hint      |-> Hint(masterPassword)])

addUserToList(us, userHash, masterPassword) ==
    LET userInfo == [hash      |-> userHash,
                     createdAt |-> toISOString(now),
                     lastLogin |-> toISOString(now),
                     hint      |-> Hint(masterPassword)]
    IN  IF \E i \in 1..Len(us) : us[i].hash = userHash
        THEN LET existingIndex ==
                     CHOOSE i \in 1..Len(us) :
                         /\ us[i].hash = userHash
                         /\ \A j \in 1..Len(us) : us[j].hash = userHash => i <= j
             IN  [us EXCEPT ![existingIndex] =
                               [@ EXCEPT !.lastLogin = toISOString(now)]]
        ELSE Append(us, userInfo)

\* ------------------------------------------------------------ signup, login
\* What a call leaves behind: its return value, the reducer state after its
\* dispatches, the two storages, and whether it dispatched new passwords and
\* settings objects.
Outcome(ok, st, sess, vl, us, fb, fresh) ==
    [ok |-> ok, st |-> st, sess |-> sess, vault |-> vl, users |-> us,
     fallback |-> fb, fresh |-> fresh]

Failed == Outcome(FALSE, state, session, vault, users, fallback, FALSE)

\* signup without the look-up of an existing blob.
signup_Overwrites(masterPassword) ==
    LET userHash == getUserHash(masterPassword)
        userStorageKey == getUserStorageKey(userHash)
        encrypted == Encrypt(Stringify(<<>>, defaultCategories, defaultSettings),
                             masterPassword)
    IN  Outcome(TRUE,
                LOGIN(SET_PASSWORDS(state, <<>>)),
                [masterPassword |-> masterPassword, currentUserHash |-> userHash],
                [vault EXCEPT ![userStorageKey] = Some(encrypted)],
                addUserToList(users, userHash, masterPassword),
                fallback,
                TRUE)

\* signup without the call of addUserToList.
signup_NoRegister(masterPassword) ==
    LET userHash == getUserHash(masterPassword)
        userStorageKey == getUserStorageKey(userHash)
        encrypted == Encrypt(Stringify(<<>>, defaultCategories, defaultSettings),
                             masterPassword)
    IN  IF vault[userStorageKey] # None
        THEN Failed
        ELSE Outcome(TRUE,
                     LOGIN(SET_PASSWORDS(state, <<>>)),
                     [masterPassword |-> masterPassword, currentUserHash |-> userHash],
                     [vault EXCEPT ![userStorageKey] = Some(encrypted)],
                     users,
                     fallback,
                     TRUE)

signup(masterPassword) ==
    LET userHash == getUserHash(masterPassword)
        userStorageKey == getUserStorageKey(userHash)
        encrypted == Encrypt(Stringify(<<>>, defaultCategories, defaultSettings),
                             masterPassword)
    IN  IF vault[userStorageKey] # None
        THEN Failed     \* 'Account with this master password already exists'
        ELSE Outcome(TRUE,
                     LOGIN(SET_PASSWORDS(state, <<>>)),
                     [masterPassword |-> masterPassword, currentUserHash |-> userHash],
                     [vault EXCEPT ![userStorageKey] = Some(encrypted)],
                     addUserToList(users, userHash, masterPassword),
                     fallback,
                     TRUE)

\* bioAvailable, bioStore: what the two calls of BiometricManager.isAvailable
\* answer; userHandle: what BiometricManager.authenticate answers.
login(masterPassword, bioAvailable, userHandle, bioStore) ==
    LET userHash == getUserHash(masterPassword)
        userStorageKey == getUserStorageKey(userHash)
        encryptedData == vault[userStorageKey]
        decryptedData == Decrypt(The(encryptedData), masterPassword)
        data == Parse(The(decryptedData))
    IN  IF masterPassword = "" /\ bioAvailable
        THEN IF userHandle # Null /\ fallback[userHandle] # None
             THEN Outcome(TRUE,
                          LOGIN(state),
                          [session EXCEPT !.currentUserHash = userHandle],
                          vault, users, fallback, FALSE)
             ELSE Failed
        ELSE IF encryptedData = None THEN Failed
        ELSE IF decryptedData = None THEN Failed
        ELSE Outcome(TRUE,
                     LOGIN(UPDATE_SETTINGS(SET_PASSWORDS(state, data.passwords),
                                           data.settings)),
                     [masterPassword |-> masterPassword, currentUserHash |-> userHash],
                     vault,
                     addUserToList(users, userHash, masterPassword),
                     IF bioStore
                     THEN [fallback EXCEPT ![userHash] = Some(<<"blob", The(encryptedData).key>>)]
                     ELSE fallback,
                     TRUE)

\* The state after a call of signup or login, effects included.
Apply(op, arg, o, fb) ==
    /\ ret' = Some([op |-> op, arg |-> arg, ok |-> o.ok])
    /\ session' = o.sess
    /\ vault' = o.vault
    /\ users' = o.users
    /\ fallback' = fb
    /\ Render(o.st, o.fresh, o.fresh, o.sess, timers)
    /\ idle' = 0
    /\ signalled' = IF o.ok THEN FALSE ELSE signalled
    /\ lockEvents' = IF o.ok THEN 0 ELSE lockEvents
    /\ atLogout' = IF o.ok THEN None ELSE atLogout
    /\ UNCHANGED <<nextId, analyzer>>

\* AuthScreen.handleSubmit in signup mode (shown while not authenticated).
Signup(p) ==
    /\ ~state.isAuthenticated
    /\ LET o == signup(p) IN Apply("signup", p, o, o.fallback)
    /\ UNCHANGED credentials

\* AuthScreen.handleSubmit in login mode, and handleBiometricAuth (login('')).
\* platform: the answers BiometricManager.isAvailable can give on the device.
Login(p, platform) ==
    /\ ~state.isAuthenticated
    /\ \E bioAvailable \in platform, bioStore \in platform,
          userHandle \in credentials \cup {Null} :
          LET o == login(p, bioAvailable, userHandle, bioStore)
          IN  Apply("login", p, o, o.fallback)
    /\ UNCHANGED credentials

\* AuthScreen.setupBiometric: login with the typed passphrase, then register a
\* handle and store the fallback value under it.
SetupBiometric(p, handle) ==
    /\ ~state.isAuthenticated
    /\ handle \notin credentials
    /\ \E bioStore \in BOOLEAN, registered \in BOOLEAN :
          LET o == login(p, TRUE, Null, bioStore)
              done == o.ok /\ registered
          IN  /\ Apply("login", p, o, IF done
                     THEN [o.fallback EXCEPT ![handle] =
                               Some(<<"text", "encrypted_vault_data">>)]
                     ELSE o.fallback)
              /\ credentials' = IF done THEN credentials \cup {handle}
                                ELSE credentials

\* ------------------------------------------------------------------- logout
logout(ts) ==
    /\ session' = noSession
    /\ Render(LOGOUT(state), ~state.pwInitial, ~state.stDefault, noSession, ts)
    /\ atLogout' = IF pendingSaves = <<>>
                   THEN Some([hash |-> session.currentUserHash,
                              passwords |-> state.passwords])
                   ELSE None
    /\ idle' = 0
    /\ ret' = None
    /\ UNCHANGED <<vault, users, fallback, credentials, nextId, signalled, analyzer>>

\* Sidebar's lock button.
Logout ==
    /\ state.isAuthenticated
    /\ logout(timers)
    /\ UNCHANGED lockEvents

\* ---------------------------------------------------------------- mutations
\* The frame of a handler that only dispatches.
Dispatch(new, pwNew, stNew) ==
    /\ state.isAuthenticated
    /\ Render(new, pwNew, stNew, session, timers)
    /\ ret' = None
    /\ UNCHANGED <<session, fallback, credentials, idle, signalled, lockEvents,
                   atLogout, analyzer>>

addPassword(secret) ==
    ADD_PASSWORD(state, [id |-> nextId, password |-> secret,
                         createdAt |-> "Date", updatedAt |-> "Date"])

AddPassword(secret) ==
    /\ nextId <= MaxId
    /\ Dispatch(addPassword(secret), TRUE, FALSE)
    /\ nextId' = nextId + 1
    /\ UNCHANGED <<vault, users>>

updatePassword(password) ==
    UPDATE_PASSWORD(state, [password EXCEPT !.updatedAt = "Date"])

\* The forms pass the edited entry: the stored one with the form's fields.
UpdatePassword(i, secret) ==
    /\ i \in 1..Len(state.passwords)
    /\ Dispatch(updatePassword([state.passwords[i] EXCEPT !.password = secret]),
                TRUE, FALSE)
    /\ UNCHANGED <<vault, users, nextId>>

deletePassword(id) == DELETE_PASSWORD(state, id)

DeletePassword(id) ==
    /\ id \in {e.id : e \in Range(state.passwords)}
    /\ Dispatch(deletePassword(id), TRUE, FALSE)
    /\ UNCHANGED <<vault, users, nextId>>

addCategory(name) == ADD_CATEGORY(state, name)

AddCategory(name) ==
    /\ name \notin Range(state.categories)
    /\ Dispatch(addCategory(name), FALSE, FALSE)
    /\ UNCHANGED <<vault, users, nextId>>

\* SettingsModal.handleAutoLockChange: { autoLockMinutes: minutes }.
SettingsPayloads == {[autoLockMinutes |-> m] : m \in AutoLockOptions}

updateSettings(newSettings) == UPDATE_SETTINGS(state, newSettings)

UpdateSettings(newSettings) ==
    /\ Dispatch(updateSettings(newSettings), FALSE, TRUE)
    /\ UNCHANGED <<vault, users, nextId>>

\* Files handed to importData: what JSON.parse of a backup file gives, with
\* the entries it lists and, possibly, settings.
ImportFiles ==
    LET Entries == {[id |-> i, password |-> "abc",
                     createdAt |-> "ISOString", updatedAt |-> "ISOString"] :
                       i \in 1..MaxId}
        Lists == UNION {[1..n -> Entries] : n \in 0..MaxImport}
    IN  {[passwords |-> v, settings |-> st] :
            v \in {[type |-> "array", items |-> l] : l \in Lists}
                    \cup {[type |-> t, items |-> <<>>] : t \in {"undefined", "object"}},
            st \in {None, Some([autoLockMinutes |-> 5])}}

\* data.passwords && Array.isArray(data.passwords)
isArray(value) == value.type = "array"

\* importData that appends every entry of the file.
importData_NoIdFilter(data) ==
    IF isArray(data.passwords)
    THEN LET merged == SET_PASSWORDS(state, state.passwords \o data.passwords.items)
         IN  IF data.settings # None
             THEN UPDATE_SETTINGS(merged, The(data.settings))
             ELSE merged
    ELSE state

importData(data) ==
    IF isArray(data.passwords)
    THEN LET existingIds == {p.id : p \in Range(state.passwords)}
             newPasswords ==
                 SelectSeqBy(data.passwords.items,
                             {p \in Range(data.passwords.items) :
                                 p.id \notin existingIds})
             merged == SET_PASSWORDS(state, state.passwords \o newPasswords)
         IN  IF data.settings # None
             THEN UPDATE_SETTINGS(merged, The(data.settings))
             ELSE merged
    ELSE state

\* handleImport of ImportExportModal and of SettingsModal on the value
\* JSON.parse gave: importData(data) and the re-render after its dispatches
\* (none when data.passwords is not an array).
ImportData(data) ==
    /\ state.isAuthenticated
    /\ Render(importData(data), isArray(data.passwords),
              isArray(data.passwords) /\ data.settings # None, session, timers)
    /\ ret' = Some([op |-> "importData", arg |-> data, ok |-> isArray(data.passwords)])
    /\ UNCHANGED <<session, fallback, credentials, idle, signalled, lockEvents,
                   atLogout, analyzer, vault, users, nextId>>

removeUser(us, userHash) ==
    SelectSeqBy(us, {u \in Range(us) : u.hash # userHash})

ClearAllData ==
    /\ LET currentUserHash == session.currentUserHash
       IN  IF currentUserHash # Null
           THEN /\ vault' = [vault EXCEPT ![getUserStorageKey(currentUserHash)] = None]
                /\ users' = removeUser(users, currentUserHash)
           ELSE UNCHANGED <<vault, users>>
    /\ Dispatch(CLEAR_ALL_DATA(state), ~state.pwInitial, ~state.stDefault)
    /\ UNCHANGED nextId

\* AuthScreen.handleDeleteUser on a user of the list (not authenticated).
DeleteUser(userHash) ==
    /\ ~state.isAuthenticated
    /\ userHash \in {u.hash : u \in Range(users)}
    /\ vault' = [vault EXCEPT ![getUserStorageKey(userHash)] = None]
    /\ users' = removeUser(users, userHash)
    /\ ret' = None
    /\ UNCHANGED <<state, session, fallback, credentials, pendingSaves, timers,
                   timeout, nextId, idle, signalled, lockEvents, atLogout,
                   analyzer>>

\* The rest of a saveData call: encrypt resolves, the blob is stored.
SaveComplete(i) ==
    /\ i \in 1..Len(pendingSaves)
    /\ LET save == pendingSaves[i]
       IN  /\ vault' = [vault EXCEPT ![getUserStorageKey(save.key)] =
                                         Some(Encrypt(save.data, save.master))]
           /\ pendingSaves' =
                  [j \in 1..(Len(pendingSaves) - 1) |->
                      IF j < i
                      THEN [pendingSaves[j] EXCEPT
                               !.stale = @ \/ pendingSaves[j].key = save.key]
                      ELSE pendingSaves[j + 1]]
    /\ ret' = None
    /\ UNCHANGED <<state, session, users, fallback, credentials, timers, timeout,
                   nextId, idle, signalled, lockEvents, atLogout, analyzer>>

\* --------------------------------------------------------------- idle timer
ListenersOn == state.isAuthenticated /\ state.settings.autoLockMinutes > 0

\* mousedown, mousemove, keypress, scroll or touchstart on the document.
Activity ==
    /\ state.isAuthenticated
    /\ LET r == IF ListenersOn
                THEN resetTimeout(timers, timeout, state.settings.autoLockMinutes)
                ELSE [timers |-> timers, timeout |-> timeout]
       IN  /\ ListenersOn => r.timeout # 0
           /\ timers' = r.timers
           /\ timeout' = r.timeout
    /\ idle' = 0
    /\ signalled' = TRUE
    /\ ret' = None
    /\ UNCHANGED <<state, session, vault, users, fallback, credentials,
                   pendingSaves, nextId, lockEvents, atLogout, analyzer>>

IdleCap == CHOOSE m \in AutoLockOptions : \A n \in AutoLockOptions : n <= m

\* TickMinutes of wall-clock time pass.
Tick ==
    /\ state.isAuthenticated \/ timers # {}
    /\ timers' = {[t EXCEPT !.elapsed = Min(t.elapsed + TickMinutes, t.delay)] :
                     t \in timers}
    /\ idle' = IF state.isAuthenticated THEN Min(idle + TickMinutes, IdleCap) ELSE idle
    /\ ret' = None
    /\ UNCHANGED <<state, session, vault, users, fallback, credentials,
                   pendingSaves, timeout, nextId, signalled, lockEvents, atLogout,
                   analyzer>>

\* A day of wall-clock time passes for the readings of new Date().
Advance ==
    /\ now < MaxDay
    /\ now' = now + 1
    /\ ret' = None
    /\ UNCHANGED <<state, session, vault, users, fallback, credentials,
                   pendingSaves, timers, timeout, nextId, idle, signalled,
                   lockEvents, atLogout, subject, report, outbound, cipher>>

\* A timer's callback runs once its delay has passed: logout().
TimerFire(t) ==
    /\ t \in timers
    /\ t.elapsed >= t.delay
    /\ logout(timers \ {t})
    /\ lockEvents' = lockEvents + 1

\* The page is loaded again in its tab: AppProvider mounts with initialState,
\* the calls in flight and the timers are gone; sessionStorage and
\* localStorage keep what they hold.
Reload ==
    /\ state' = initialState
    /\ pendingSaves' = <<>>
    /\ timers' = {}
    /\ timeout' = 0
    /\ idle' = 0
    /\ signalled' = FALSE
    /\ atLogout' = None
    /\ ret' = None
    /\ UNCHANGED <<session, vault, users, fallback, credentials, nextId,
                   lockEvents, analyzer>>

\* localStorage is changed behind the program's back (a damaged or edited
\* blob): the blob under key k no longer is what encrypt produced.
CorruptBlob(k) ==
    /\ ~state.isAuthenticated
    /\ vault[k] # None
    /\ The(vault[k]).intact
    /\ vault' = [vault EXCEPT ![k] = Some([The(vault[k]) EXCEPT !.intact = FALSE])]
    /\ ret' = None
    /\ UNCHANGED <<state, session, users, fallback, credentials, pendingSaves,
                   timers, timeout, nextId, idle, signalled, lockEvents, atLogout,
                   analyzer>>

\* -------------------------------------------------------- SecurityAnalyzer
\* The analyzer sees of an entry its secret (here the sequence of its
\* characters), createdAt and expiryDate (here days) and isCompromised.
Lower == {"a", "b", "c", "d", "e", "f", "g", "h", "i", "j", "k", "l", "m",
          "n", "o", "p", "q", "r", "s", "t", "u", "v", "w", "x", "y", "z"}
Upper == {"A", "B", "C", "D", "E", "F", "G", "H", "I", "J", "K", "L", "M",
          "N", "O", "P", "Q", "R", "S", "T", "U", "V", "W", "X", "Y", "Z"}
Digit == {"0", "1", "2", "3", "4", "5", "6", "7", "8", "9"}
\* /[!@#$%^&*(),.?":{}|<>]/
Punctuation == {"!", "@", "#", "$", "%", "^", "&", "*", "(", ")", ",", ".",
                "?", "\"", ":", "{", "}", "|", "<", ">"}

\* RegExp.prototype.test for a character class.
test(class, password) == \E i \in 1..Len(password) : password[i] \in class

\* calculatePasswordStrength with a first length threshold of 3.
calculatePasswordStrength_ShortLength(password) ==
    LET score1 == IF Len(password) >= 3 THEN 25 ELSE 0
        score2 == IF Len(password) >= 12 THEN score1 + 25 ELSE score1
        score3 == IF test(Lower, password) /\ test(Upper, password)
                  THEN score2 + 20 ELSE score2
        score4 == IF test(Digit, password) THEN score3 + 15 ELSE score3
        score5 == IF test(Punctuation, password) THEN score4 + 15 ELSE score4
    IN  Min(100, score5)

\* calculatePasswordStrength that takes letters of either case for mixed case.
calculatePasswordStrength_EitherCase(password) ==
    LET score1 == IF Len(password) >= 8 THEN 25 ELSE 0
        score2 == IF Len(password) >= 12 THEN score1 + 25 ELSE score1
        score3 == IF test(Lower, password) \/ test(Upper, password)
                  THEN score2 + 20 ELSE score2
        score4 == IF test(Digit, password) THEN score3 + 15 ELSE score3
        score5 == IF test(Punctuation, password) THEN score4 + 15 ELSE score4
    IN  Min(100, score5)

calculatePasswordStrength(password) ==
    LET score1 == IF Len(password) >= 8 THEN 25 ELSE 0
        score2 == IF Len(password) >= 12 THEN score1 + 25 ELSE score1
        score3 == IF test(Lower, password) /\ test(Upper, password)
                  THEN score2 + 20 ELSE score2
        score4 == IF test(Digit, password) THEN score3 + 15 ELSE score3
        score5 == IF test(Punctuation, password) THEN score4 + 15 ELSE score4
    IN  Min(100, score5)

\* passwordMap after the forEach: the groups in the order their secrets were
\* first met (a Map iterates in insertion order), each with its entries.
RECURSIVE passwordMap(_)
passwordMap(passwords) ==
    IF passwords = <<>> THEN <<>>
    ELSE LET n == Len(passwords)
             before == passwordMap(SubSeq(passwords, 1, n - 1))
             entry == passwords[n]
         IN  IF \E g \in 1..Len(before) : before[g].key = entry.password
             THEN [g \in 1..Len(before) |->
                      IF before[g].key = entry.password
                      THEN [before[g] EXCEPT !.entries = Append(@, entry)]
                      ELSE before[g]]
             ELSE Append(before, [key |-> entry.password, entries |-> <<entry>>])

\* reused after passwordMap.forEach over the first n groups.
RECURSIVE pushReused(_, _)
pushReused(groups, n) ==
    IF n = 0 THEN <<>>
    ELSE IF Len(groups[n].entries) > 1
         THEN pushReused(groups, n - 1) \o groups[n].entries
         ELSE pushReused(groups, n - 1)

\* findReusedPasswords that reports the entries after the first of a group.
findReusedPasswords_DuplicatesOnly(passwords) ==
    LET later[n \in 0..Len(passwords)] ==
            IF n = 0 THEN <<>>
            ELSE IF \E j \in 1..(n - 1) : passwords[j].password = passwords[n].password
                 THEN Append(later[n - 1], passwords[n])
                 ELSE later[n - 1]
    IN  later[Len(passwords)]

findReusedPasswords(passwords) ==
    pushReused(passwordMap(passwords), Len(passwordMap(passwords)))

ExpiryDays == 90

\* isPasswordExpired that looks at createdAt only.
isPasswordExpired_IgnoresExplicit(password, expiryDays) ==
    now > password.createdAt + expiryDays

isPasswordExpired(password, expiryDays) ==
    IF password.expiryDate = None
    THEN LET createdDate == password.createdAt
             expiryDate == createdDate + expiryDays
         IN  now > expiryDate
    ELSE now > The(password.expiryDate)

\* The score is kept as the exact fraction num / den (the code computes it
\* in floating point).
Score(weak, reused, expired, compromised, total) ==
    [num |-> Max(0, 100 * total - 30 * weak - 25 * reused - 20 * expired
                       - 25 * compromised),
     den |-> total]

\* analyzePasswordSecurity with a reuse penalty of 20.
analyzePasswordSecurity_ReusedWeight20(passwords) ==
    LET at == 1..Len(passwords)
        weakPasswords ==
            Cardinality({i \in at : calculatePasswordStrength(passwords[i].password) < 60})
        reusedPasswords == Len(findReusedPasswords(passwords))
        expiredPasswords ==
            Cardinality({i \in at : isPasswordExpired(passwords[i], ExpiryDays)})
        compromisedPasswords == Cardinality({i \in at : passwords[i].isCompromised})
    IN  [weakPasswords |-> weakPasswords,
         reusedPasswords |-> reusedPasswords,
         expiredPasswords |-> expiredPasswords,
         compromisedPasswords |-> compromisedPasswords,
         totalPasswords |-> Len(passwords),
         securityScore |->
             IF Len(passwords) > 0
             THEN [num |-> Max(0, 100 * Len(passwords) - 30 * weakPasswords
                                    - 20 * reusedPasswords - 20 * expiredPasswords
                                    - 25 * compromisedPasswords),
                   den |-> Len(passwords)]
             ELSE [num |-> 100, den |-> 1]]

analyzePasswordSecurity(passwords) ==
    LET at == 1..Len(passwords)
        weakPasswords ==
            Cardinality({i \in at : calculatePasswordStrength(passwords[i].password) < 60})
        reusedPasswords == Len(findReusedPasswords(passwords))
        expiredPasswords ==
            Cardinality({i \in at : isPasswordExpired(passwords[i], ExpiryDays)})
        compromisedPasswords == Cardinality({i \in at : passwords[i].isCompromised})
    IN  [weakPasswords |-> weakPasswords,
         reusedPasswords |-> reusedPasswords,
         expiredPasswords |-> expiredPasswords,
         compromisedPasswords |-> compromisedPasswords,
         totalPasswords |-> Len(passwords),
         securityScore |->
             IF Len(passwords) > 0
             THEN Score(weakPasswords, reusedPasswords, expiredPasswords,
                        compromisedPasswords, Len(passwords))
             ELSE [num |-> 100, den |-> 1]]

\* The entries handed to the analyzer.
Entry(id, password, createdAt, expiryDate, isCompromised) ==
    [id |-> id, password |-> password, createdAt |-> createdAt,
     expiryDate |-> expiryDate, isCompromised |-> isCompromised]

Alphabet == {"a", "Z", "7", "!", "_"}
PadChars == {"a", "_"}
ReferenceSecrets ==
    {<<"a", "b", "c">>,
     <<"a", "b", "c", "d", "e", "f", "g", "h">>,
     <<"A", "b", "c", "d", "e", "f", "g", "1", "!">>}
SecretSamples ==
    ReferenceSecrets \cup
    {core \o [i \in 1..n |-> c] :
        core \in UNION {[1..k -> Alphabet] : k \in 0..MaxCore},
        c \in PadChars, n \in 0..MaxPad}

\* Entries of a collection: two short secrets, one secret of strength 60,
\* with or without an explicit expiry, compromised or not.
CollectionSecrets == {<<"x">>, <<"y">>, <<"A", "b", "c", "d", "e", "f", "g", "1">>}
CollectionEntries ==
    {Entry(0, s, 0, e, c) :
        s \in CollectionSecrets, e \in {None, Some(1)}, c \in BOOLEAN}
Collections ==
    UNION {{[i \in 1..n |-> [k[i] EXCEPT !.id = i]] : k \in [1..n -> CollectionEntries]} :
              n \in 0..MaxEntries}
CollectionDays == {0, 2}

DatedEntries ==
    {Entry(1, <<"x">>, created, e, FALSE) :
        created \in {0, 1}, e \in {None, Some(1), Some(91), Some(200)}}
ExpiryCheckDays == {0, 1, 2, 90, 91, 92, 200, 201}

AnalyzerInit ==
    /\ state = initialState
    /\ session = noSession
    /\ vault = [k \in StoreKeys |-> None]
    /\ users = <<>>
    /\ fallback = [k \in StoreKeys |-> None]
    /\ credentials = {}
    /\ pendingSaves = <<>>
    /\ timers = {}
    /\ timeout = 0
    /\ nextId = 1
    /\ ret = None
    /\ idle = 0
    /\ signalled = FALSE
    /\ lockEvents = 0
    /\ atLogout = None
    /\ report = None
    /\ outbound = <<>>
    /\ cipher = None
    /\ \/ now = 0 /\ subject \in {<<Entry(1, s, 0, None, FALSE)>> : s \in SecretSamples}
       \/ now \in CollectionDays /\ subject \in Collections
       \/ now \in ExpiryCheckDays /\ subject \in {<<e>> : e \in DatedEntries}

\* A call of one of the analyzer's functions leaves its result in report.
Analyze(op, arg, value) ==
    /\ report' = Some([op |-> op, arg |-> arg, value |-> value])
    /\ outbound' = <<>>
    /\ UNCHANGED <<state, session, vault, users, fallback, credentials,
                   pendingSaves, timers, timeout, nextId, ret, idle, signalled,
                   lockEvents, atLogout, now, subject, cipher>>

CalculatePasswordStrength(i) ==
    /\ i \in 1..Len(subject)
    /\ Analyze("calculatePasswordStrength", i,
               calculatePasswordStrength(subject[i].password))

FindReusedPasswords == Analyze("findReusedPasswords", 0, findReusedPasswords(subject))

IsPasswordExpired(i) ==
    /\ i \in 1..Len(subject)
    /\ Analyze("isPasswordExpired", i, isPasswordExpired(subject[i], ExpiryDays))

AnalyzePasswordSecurity ==
    Analyze("analyzePasswordSecurity", 0, analyzePasswordSecurity(subject))

\* ------------------------------------------------------------ breach check
\* crypto.subtle.digest('SHA-1', data): the 20 bytes of the digest.  SHA-1 is
\* symbolic: a fixed function of the secret whose first three bytes depend
\* on the secret's length only, so that secrets collide on the prefix of the
\* digest while the rest of it differs.
sha1(password) ==
    LET lowers == Cardinality({i \in 1..Len(password) : password[i] \in Lower})
    IN  [i \in 1..20 |->
            IF i <= 3 THEN (41 * Len(password) + 67 * i) % 256
            ELSE (29 * lowers + 113 * i + 7 * Len(password)) % 256]

HexDigits == <<"0", "1", "2", "3", "4", "5", "6", "7", "8", "9",
               "a", "b", "c", "d", "e", "f">>

\* b.toString(16).padStart(2, '0')
toHex(b) == <<HexDigits[(b \div 16) + 1], HexDigits[(b % 16) + 1]>>

toUpperCase(c) ==
    CASE c = "a" -> "A" [] c = "b" -> "B" [] c = "c" -> "C"
      [] c = "d" -> "D" [] c = "e" -> "E" [] c = "f" -> "F"
      [] OTHER -> c

\* hashArray.map(...).join('').toUpperCase(): 40 characters.
hashHex(password) ==
    LET hashArray == sha1(password)
    IN  [k \in 1..(2 * Len(hashArray)) |->
            toUpperCase(toHex(hashArray[(k + 1) \div 2])[2 - (k % 2)])]

\* String.prototype.substring(start, end).
substring(str, start, end) == SubSeq(str, start + 1, end)

\* fetch(`https://api.pwnedpasswords.com/range/${prefix}`): the request.
RangeRequest(prefix) == [url |-> "https://api.pwnedpasswords.com/range/", path |-> prefix]

\* What the platform and the network do during a call: which step fails, and
\* whether the range the server answers with lists the digest's suffix.
BreachEnvs ==
    {[failure |-> f, listed |-> FALSE] : f \in {"digest", "fetch", "text"}}
    \cup {[failure |-> "none", listed |-> l] : l \in BOOLEAN}

\* A suffix of the range that is no sampled secret's.
OtherSuffix == [k \in 1..35 |-> "0"]

\* response.text(): the lines of the range, each a suffix (and its count).
ResponseText(env, suffix) ==
    IF env.listed THEN <<OtherSuffix, suffix>> ELSE <<OtherSuffix>>

\* text.includes(suffix), for a suffix of 35 hex characters: one of the lines.
includes(text, suffix) == suffix \in Range(text)

\* checkPasswordBreach without its try / catch.
checkPasswordBreach_NoCatch(password, env) ==
    LET prefix == substring(hashHex(password), 0, 5)
        suffix == substring(hashHex(password), 5, Len(hashHex(password)))
        request == RangeRequest(prefix)
        text == ResponseText(env, suffix)
    IN  IF env.failure = "digest"
        THEN [threw |-> TRUE, value |-> FALSE, requests |-> <<>>]
        ELSE IF env.failure \in {"fetch", "text"}
        THEN [threw |-> TRUE, value |-> FALSE, requests |-> <<request>>]
        ELSE [threw |-> FALSE, value |-> includes(text, suffix),
              requests |-> <<request>>]

\* checkPasswordBreach that asks for the whole digest.
checkPasswordBreach_SendsHash(password, env) ==
    LET suffix == substring(hashHex(password), 5, Len(hashHex(password)))
        request == RangeRequest(hashHex(password))
        text == ResponseText(env, suffix)
    IN  IF env.failure = "digest"
        THEN [threw |-> FALSE, value |-> FALSE, requests |-> <<>>]
        ELSE IF env.failure \in {"fetch", "text"}
        THEN [threw |-> FALSE, value |-> FALSE, requests |-> <<request>>]
        ELSE [threw |-> FALSE, value |-> includes(text, suffix),
              requests |-> <<request>>]

\* The promise checkPasswordBreach returns: whether it rejects (threw), the
\* value it resolves to, and the requests the call made.
checkPasswordBreach(password, env) ==
    LET prefix == substring(hashHex(password), 0, 5)
        suffix == substring(hashHex(password), 5, Len(hashHex(password)))
        request == RangeRequest(prefix)
        text == ResponseText(env, suffix)
    IN  IF env.failure = "digest"
        THEN [threw |-> FALSE, value |-> FALSE, requests |-> <<>>]     \* catch
        ELSE IF env.failure \in {"fetch", "text"}
        THEN [threw |-> FALSE, value |-> FALSE, requests |-> <<request>>]
        ELSE [threw |-> FALSE, value |-> includes(text, suffix),
              requests |-> <<request>>]

\* A call of checkPasswordBreach on the secret of an entry.
CheckPasswordBreach(i, env) ==
    /\ i \in 1..Len(subject)
    /\ LET result == checkPasswordBreach(subject[i].password, env)
       IN  /\ report' = Some([op |-> "checkPasswordBreach",
                              arg |-> [index |-> i, env |-> env],
                              value |-> [threw |-> result.threw,
                                         value |-> result.value]])
           /\ outbound' = result.requests
    /\ UNCHANGED <<state, session, vault, users, fallback, credentials,
                   pendingSaves, timers, timeout, nextId, ret, idle, signalled,
                   lockEvents, atLogout, now, subject, cipher>>

\* ------------------------------------------------------------ CryptoManager
\* A string is the sequence of its UTF-16 code units, a Uint8Array the
\* sequence of its bytes.  A byte is a record: its value b and, for a byte
\* AES-GCM put out, what sealed it (by); AES-GCM and PBKDF2 are symbolic.
SALT_LENGTH == 32
IV_LENGTH == 16
TagBytes == 16         \* tagLength: 128

Plain(b) == [b |-> b, by |-> <<>>]

\* TextEncoder.encode of one code unit that is no surrogate.
EncodeUnit(c) ==
    IF c < 128 THEN <<c>>
    ELSE IF c < 2048 THEN <<192 + (c \div 64), 128 + (c % 64)>>
    ELSE <<224 + (c \div 4096), 128 + ((c \div 64) % 64), 128 + (c % 64)>>

IsHighSurrogate(c) == c >= 55296 /\ c <= 56319
IsLowSurrogate(c) == c >= 56320 /\ c <= 57343

\* TextEncoder.encode: UTF-8; a surrogate pair gives four bytes, a surrogate
\* on its own the three bytes of U+FFFD.
RECURSIVE EncodeUnits(_)
EncodeUnits(str) ==
    IF str = <<>> THEN <<>>
    ELSE IF IsHighSurrogate(str[1]) /\ Len(str) >= 2 /\ IsLowSurrogate(str[2])
    THEN LET cp == 65536 + (str[1] - 55296) * 1024 + (str[2] - 56320)
         IN  <<240 + (cp \div 262144), 128 + ((cp \div 4096) % 64),
               128 + ((cp \div 64) % 64), 128 + (cp % 64)>>
             \o EncodeUnits(SubSeq(str, 3, Len(str)))
    ELSE IF IsHighSurrogate(str[1]) \/ IsLowSurrogate(str[1])
    THEN <<239, 191, 189>> \o EncodeUnits(Tail(str))
    ELSE EncodeUnit(str[1]) \o EncodeUnits(Tail(str))

TextEncoder(str) ==
    IF \A i \in 1..Len(str) : str[i] < 128 THEN str ELSE EncodeUnits(str)

\* TextDecoder.decode: UTF-8 to code units; a byte that starts no sequence
\* gives U+FFFD.
RECURSIVE TextDecoder(_)
TextDecoder(bytes) ==
    IF bytes = <<>> THEN <<>>
    ELSE LET b1 == bytes[1]
             cont(k) == Len(bytes) >= k /\ bytes[k] >= 128 /\ bytes[k] < 192
         IN  IF b1 < 128 THEN <<b1>> \o TextDecoder(Tail(bytes))
             ELSE IF b1 >= 194 /\ b1 < 224 /\ cont(2)
             THEN <<(b1 - 192) * 64 + (bytes[2] - 128)>>
                  \o TextDecoder(SubSeq(bytes, 3, Len(bytes)))
             ELSE IF b1 >= 224 /\ b1 < 240 /\ cont(2) /\ cont(3)
             THEN <<(b1 - 224) * 4096 + (bytes[2] - 128) * 64 + (bytes[3] - 128)>>
                  \o TextDecoder(SubSeq(bytes, 4, Len(bytes)))
             ELSE IF b1 >= 240 /\ b1 < 245 /\ cont(2) /\ cont(3) /\ cont(4)
             THEN LET cp == (b1 - 240) * 262144 + (bytes[2] - 128) * 4096
                            + (bytes[3] - 128) * 64 + (bytes[4] - 128)
                  IN  <<55296 + ((cp - 65536) \div 1024),
                        56320 + ((cp - 65536) % 1024)>>
                      \o TextDecoder(SubSeq(bytes, 5, Len(bytes)))
             ELSE <<65533>> \o TextDecoder(Tail(bytes))

\* PBKDF2-SHA256 with 210000 iterations: one key per password and salt.
deriveKey(password, salt) == <<"key", password, salt>>

\* crypto.subtle.encrypt, AES-GCM: the ciphertext bytes, then the tag.
AesGcmEncrypt(key, iv, dataBuffer) ==
    [i \in 1..(Len(dataBuffer) + TagBytes) |->
        IF i <= Len(dataBuffer)
        THEN [b |-> dataBuffer[i], by |-> <<"ct", key, iv, i>>]
        ELSE [b |-> i - Len(dataBuffer), by |-> <<"tag", key, iv, dataBuffer>>]]

\* crypto.subtle.decrypt, AES-GCM: the plaintext bytes if the buffer is what
\* encryption under this key and iv puts out, else None (OperationError).
AesGcmDecrypt(key, iv, encryptedBuffer) ==
    IF Len(iv) = 0 \/ Len(encryptedBuffer) < TagBytes THEN None
    ELSE LET opened == [i \in 1..(Len(encryptedBuffer) - TagBytes) |->
                           encryptedBuffer[i].b]
         IN  IF encryptedBuffer = AesGcmEncrypt(key, iv, opened)
             THEN Some(opened) ELSE None

\* The arguments a call takes at most; String.fromCharCode(...combined)
\* throws a RangeError beyond (65536 in JavaScriptCore, more in V8 and
\* SpiderMonkey).
MaxSpreadArguments == 65536

\* btoa of the binary string / atob: base64 is a tagging of the bytes; atob
\* throws (None) on a text that is not base64.
btoa(bytes) == <<"base64", bytes>>
atob(text) == IF text[1] = "base64" THEN Some(text[2]) ELSE None

\* Array.prototype.slice(start, end).
slice(array, start, end) == SubSeq(array, start + 1, Min(end, Len(array)))

Returned(value) == [error |-> Null, value |-> Some(value)]
Threw(message) == [error |-> message, value |-> None]

\* salt, iv: what crypto.getRandomValues gives.
encrypt(data, password, salt, iv) ==
    LET dataBuffer == TextEncoder(data)
        key == deriveKey(password, salt)
        encryptedArray == AesGcmEncrypt(key, iv, dataBuffer)
        combined == salt \o iv \o encryptedArray
    IN  IF Len(salt) + Len(iv) + Len(encryptedArray) > MaxSpreadArguments
        THEN Threw("Encryption failed")
        ELSE Returned(btoa(combined))

\* decrypt that hands out what the buffer holds without the tag's check.
decrypt_Unauthenticated(encryptedData, password) ==
    IF atob(encryptedData) = None
    THEN Threw("Invalid password or corrupted data")
    ELSE LET combined == The(atob(encryptedData))
             encryptedBuffer == slice(combined, SALT_LENGTH + IV_LENGTH, Len(combined))
         IN  Returned(TextDecoder([i \in 1..Max(0, Len(encryptedBuffer) - TagBytes) |->
                                     encryptedBuffer[i].b]))

decrypt(encryptedData, password) ==
    IF atob(encryptedData) = None
    THEN Threw("Invalid password or corrupted data")
    ELSE LET combined == The(atob(encryptedData))
             salt == slice(combined, 0, SALT_LENGTH)
             iv == slice(combined, SALT_LENGTH, SALT_LENGTH + IV_LENGTH)
             encryptedBuffer == slice(combined, SALT_LENGTH + IV_LENGTH, Len(combined))
             key == deriveKey(password, salt)
             decryptedBuffer == AesGcmDecrypt(key, iv, encryptedBuffer)
         IN  IF decryptedBuffer = None
             THEN Threw("Invalid password or corrupted data")
             ELSE Returned(TextDecoder(The(decryptedBuffer)))

\* The JSON texts handed to encrypt (JSON.stringify gives well-formed
\* strings): short ones of one-, two-, three- and four-byte characters, and
\* one of a vault whose blob has more bytes than a call takes arguments.
LongLength == MaxSpreadArguments - SALT_LENGTH - IV_LENGTH - TagBytes + 1
Plaintexts ==
    {<<123, 125>>,
     <<34, 97, 34>>,
     <<34, 233, 34>>,
     <<34, 8364, 34>>,
     <<34, 55357, 56832, 34>>,
     [i \in 1..LongLength |-> IF i = 1 \/ i = LongLength THEN 34 ELSE 97]}

\* What crypto.getRandomValues fills the salt and the nonce with.
Salts == {[i \in 1..SALT_LENGTH |-> Plain(v)] : v \in {1, 2}}
Nonces == {[i \in 1..IV_LENGTH |-> Plain(v)] : v \in {1, 3}}

\* What can have happened to a blob between encrypt and decrypt: nothing, a
\* byte changed (at: its position from 1, 0 for the last), the blob cut to
\* its first `at` bytes, or its text replaced by one that is not base64.
Tampers ==
    {[kind |-> "none", at |-> 0], [kind |-> "malformed", at |-> 0]}
    \cup {[kind |-> "flip", at |-> a] :
              a \in {0, 1, SALT_LENGTH, SALT_LENGTH + 1, SALT_LENGTH + IV_LENGTH,
                     SALT_LENGTH + IV_LENGTH + 1}}
    \cup {[kind |-> "cut", at |-> a] :
              a \in {0, 1, SALT_LENGTH, SALT_LENGTH + IV_LENGTH,
                     SALT_LENGTH + IV_LENGTH + 1, SALT_LENGTH + IV_LENGTH + TagBytes,
                     SALT_LENGTH + IV_LENGTH + TagBytes + 1}}

Tamper(blob, t) ==
    LET bytes == The(atob(blob))
        pos == IF t.at = 0 THEN Len(bytes) ELSE t.at
    IN  CASE t.kind = "none" -> blob
          [] t.kind = "malformed" -> <<"text", bytes>>
          [] t.kind = "flip" ->
                btoa([bytes EXCEPT ![pos] = Plain((bytes[pos].b + 1) % 256)])
          [] t.kind = "cut" -> btoa(SubSeq(bytes, 1, Min(t.at, Len(bytes))))

\* The arguments of a call of CryptoManager.encrypt and what
\* crypto.getRandomValues will give it.
CryptoInit ==
    /\ state = initialState
    /\ session = noSession
    /\ vault = [k \in StoreKeys |-> None]
    /\ users = <<>>
    /\ fallback = [k \in StoreKeys |-> None]
    /\ credentials = {}
    /\ pendingSaves = <<>>
    /\ timers = {}
    /\ timeout = 0
    /\ nextId = 1
    /\ ret = None
    /\ idle = 0
    /\ signalled = FALSE
    /\ lockEvents = 0
    /\ atLogout = None
    /\ now = 0
    /\ subject = <<>>
    /\ report = None
    /\ outbound = <<>>
    /\ cipher \in {Some([op |-> "args", data |-> data, key |-> password,
                         password |-> password, salt |-> salt, iv |-> iv,
                         tamper |-> [kind |-> "none", at |-> 0],
                         result |-> [error |-> Null, value |-> None]]) :
                       data \in Plaintexts, password \in Pass,
                       salt \in Salts, iv \in Nonces}

\* The call of CryptoManager.encrypt.
EncryptCall ==
    /\ cipher # None
    /\ The(cipher).op = "args"
    /\ cipher' = Some([The(cipher) EXCEPT
                          !.op = "encrypt",
                          !.result = encrypt(The(cipher).data, The(cipher).key,
                                             The(cipher).salt, The(cipher).iv)])
    /\ UNCHANGED <<state, session, vault, users, fallback, credentials,
                   pendingSaves, timers, timeout, nextId, ret, idle, signalled,
                   lockEvents, atLogout, now, subject, report, outbound>>

\* A call of CryptoManager.decrypt on the blob encrypt returned, or on what
\* has become of it.
DecryptCall(password, t) ==
    /\ cipher # None
    /\ The(cipher).op = "encrypt"
    /\ The(cipher).result.error = Null
    /\ cipher' = Some([The(cipher) EXCEPT
                          !.op = "decrypt",
                          !.password = password,
                          !.tamper = t,
                          !.result = decrypt(Tamper(The(The(cipher).result.value), t),
                                             password)])
    /\ UNCHANGED <<state, session, vault, users, fallback, credentials,
                   pendingSaves, timers, timeout, nextId, ret, idle, signalled,
                   lockEvents, atLogout, now, subject, report, outbound>>

\* ----------------------------------------------------------- specifications
Owner == "pA"
NoAuthenticator == {FALSE}       \* a device without a platform authenticator

\* VaultSpec: one user's vault on a device without a platform authenticator,
\* wall-clock time standing still (the idle timer's logout is the same call
\* of logout as the lock button's).
VaultNext ==
    \/ Signup(Owner)
    \/ Login(Owner, NoAuthenticator)
    \/ Logout
    \/ \E s \in Secrets : AddPassword(s)
    \/ \E i \in 1..MaxId, s \in Secrets : UpdatePassword(i, s)
    \/ \E id \in 1..MaxId : DeletePassword(id)
    \/ \E c \in CustomCategories : AddCategory(c)
    \/ \E n \in SettingsPayloads : UpdateSettings(n)
    \/ ClearAllData
    \/ DeleteUser(getUserHash(Owner))
    \/ \E i \in 1..MaxPending : SaveComplete(i)

VaultSpec == Init /\ [][VaultNext]_vars

\* AuthSpec: the ways into and out of a session for two users, on a device
\* whose authenticator may or may not answer, with blobs that can be damaged.
AuthNext ==
    \/ \E p \in Pass : Signup(p)
    \/ \E p \in Pass \cup {""} : Login(p, BOOLEAN)
    \/ \E p \in Pass, h \in Handles : SetupBiometric(p, h)
    \/ Logout
    \/ ClearAllData
    \/ \E h \in Hashes : DeleteUser(h)
    \/ \E i \in 1..MaxPending : SaveComplete(i)
    \/ \E k \in Hashes : CorruptBlob(k)

AuthSpec == Init /\ [][AuthNext]_vars

\* TimerSpec: one user's session and its idle timer, with time passing and
\* the auto-lock setting changed.
TimerNext ==
    \/ Signup(Owner)
    \/ Login(Owner, NoAuthenticator)
    \/ Logout
    \/ \E n \in SettingsPayloads : UpdateSettings(n)
    \/ \E i \in 1..MaxPending : SaveComplete(i)
    \/ Activity
    \/ Tick
    \/ \E t \in timers : TimerFire(t)

TimerSpec == Init /\ [][TimerNext]_vars

\* LockSpec: one user's sessions with the entries, the categories and the
\* settings mutated, ended by the lock button or by the idle timer, so that
\* both ways of locking meet every part of the in-memory state.
LockNext ==
    \/ Signup(Owner)
    \/ Login(Owner, NoAuthenticator)
    \/ Logout
    \/ AddPassword("abc")
    \/ \E c \in CustomCategories : AddCategory(c)
    \/ UpdateSettings([autoLockMinutes |-> 5])
    \/ \E i \in 1..MaxPending : SaveComplete(i)
    \/ Tick
    \/ \E t \in timers : TimerFire(t)

LockSpec == Init /\ [][LockNext]_vars

\* RegistrySpec: two users signing up, logging in and deleting vaults on
\* different days.
RegistryNext ==
    \/ \E p \in Pass : Signup(p)
    \/ \E p \in Pass : Login(p, NoAuthenticator)
    \/ Logout
    \/ ClearAllData
    \/ \E h \in Hashes : DeleteUser(h)
    \/ \E i \in 1..MaxPending : SaveComplete(i)
    \/ Advance

RegistrySpec == Init /\ [][RegistryNext]_vars

\* ImportSpec: one session in which entries are added, edited, deleted and
\* imported from backup files that list MaxImport entries and no settings.
EntryFiles ==
    {f \in ImportFiles : /\ isArray(f.passwords)
                         /\ Len(f.passwords.items) = MaxImport
                         /\ f.settings = None}

ImportNext ==
    \/ Signup(Owner)
    \/ AddPassword("abc")
    \/ \E i \in 1..(2 * MaxId) : UpdatePassword(i, "abc")
    \/ \E id \in 1..MaxId : DeletePassword(id)
    \/ \E f \in EntryFiles : ImportData(f)
    \/ \E i \in 1..MaxPending : SaveComplete(i)

ImportSpec == Init /\ [][ImportNext]_vars

\* MergeSpec: one session in which entries are added and files of every kind
\* are imported: with and without entries, with and without settings, and
\* files whose passwords member is missing or is not an array.
MergeNext ==
    \/ Signup(Owner)
    \/ AddPassword("abc")
    \/ \E f \in ImportFiles : ImportData(f)
    \/ \E i \in 1..MaxPending : SaveComplete(i)

MergeSpec == Init /\ [][MergeNext]_vars

\* AnalyzerSpec: the analyzer's functions applied to sampled entries.
AnalyzerNext ==
    \/ \E i \in 1..MaxEntries : CalculatePasswordStrength(i)
    \/ FindReusedPasswords
    \/ \E i \in 1..MaxEntries : IsPasswordExpired(i)
    \/ AnalyzePasswordSecurity

AnalyzerSpec == AnalyzerInit /\ [][AnalyzerNext]_vars

\* BreachSpec: breach checks of the secrets of sampled entries under every
\* outcome of the digest and the network, next to the security report.
BreachInit == AnalyzerInit /\ now = 0

BreachNext ==
    \/ \E i \in 1..MaxEntries, env \in BreachEnvs : CheckPasswordBreach(i, env)
    \/ AnalyzePasswordSecurity

BreachSpec == BreachInit /\ [][BreachNext]_vars

\* CryptoSpec: CryptoManager.encrypt on the texts of vaults, and decrypt on
\* the blobs it returned, handed back as they are or damaged, with the same
\* or another passphrase.
CryptoNext ==
    \/ EncryptCall
    \/ \E password \in Pass, t \in Tampers : DecryptCall(password, t)

CryptoSpec == CryptoInit /\ [][CryptoNext]_vars

\* IsolationSpec: two users and a registered authenticator on one device,
\* with entries added, sessions ended and the page loaded again.
IsolationNext ==
    \/ \E p \in Pass : Signup(p)
    \/ \E p \in Pass \cup {""} : Login(p, BOOLEAN)
    \/ \E p \in Pass, h \in Handles : SetupBiometric(p, h)
    \/ Logout
    \/ AddPassword("abc")
    \/ \E i \in 1..MaxPending : SaveComplete(i)
    \/ Reload

IsolationSpec == Init /\ [][IsolationNext]_vars

\* ClearSpec: one user's sessions with entries added and the vault cleared
\* from the sidebar.
ClearNext ==
    \/ Signup(Owner)
    \/ Login(Owner, NoAuthenticator)
    \/ Logout
    \/ AddPassword("abc")
    \/ ClearAllData
    \/ \E i \in 1..MaxPending : SaveComplete(i)

ClearSpec == Init /\ [][ClearNext]_vars

\* DeletionSpec: two users' sessions with entries added, and vaults deleted
\* from the list of the sign-in screen.
DeletionNext ==
    \/ \E p \in Pass : Signup(p)
    \/ \E p \in Pass : Login(p, NoAuthenticator)
    \/ Logout
    \/ AddPassword("abc")
    \/ \E h \in Hashes : DeleteUser(h)
    \/ \E i \in 1..MaxPending : SaveComplete(i)

DeletionSpec == Init /\ [][DeletionNext]_vars

\* TimerLive: TimerSpec where time passes and the event loop runs the callback
\* of a timer that is due.
TimerLive ==
    /\ TimerSpec
    /\ WF_vars(Tick)
    /\ WF_vars(\E t \in timers : TimerFire(t))

----------------------------------------------------------------------------
(* Properties of the vault: saving, restoring.                              *)

Last(q) == q[Len(q)]

\* A step that unlocks the session by login: the blob of the vault was there
\* before the step (signup only unlocks when it was not).
UnlockedByLogin(userHash) ==
    /\ ~state.isAuthenticated
    /\ state'.isAuthenticated
    /\ session'.currentUserHash = userHash
    /\ vault[getUserStorageKey(userHash)] # None

\* C1: two saves of one vault never interleave: a save started for an older
\* snapshot never writes its blob after the save of a later snapshot of the
\* same vault has written, so the stored blob is the one of the later
\* snapshot.
C1_SavesAreSerialized ==
    [][\A i \in 1..MaxPending :
          (i <= Len(pendingSaves) /\ pendingSaves[i].stale)
              => vault'[pendingSaves[i].key] # Some(Encrypt(pendingSaves[i].data,
                                                              pendingSaves[i].master))
                 \/ vault'[pendingSaves[i].key] = vault[pendingSaves[i].key]]_vars

\* C2: logging out (with no save in flight) and logging in again with the
\* same passphrase restores the entries of the moment of logout, same ids and
\* same field values (compared as JSON.stringify renders them, so that the
\* representation of a timestamp is not counted as a difference).
C2_LogoutLoginRestoresEntries ==
    [][(atLogout # None /\ UnlockedByLogin(The(atLogout).hash))
          => [i \in 1..Len(state'.passwords) |-> StringifyEntry(state'.passwords[i])]
             = [i \in 1..Len(The(atLogout).passwords) |->
                    StringifyEntry(The(atLogout).passwords[i])]]_vars

\* C3: every mutation of the entries, the categories or the settings of an
\* unlocked vault starts a save of the whole post-mutation snapshot.
C3_EveryMutationStartsASave ==
    [][(/\ state.isAuthenticated /\ state'.isAuthenticated
        /\ session.masterPassword # Null
        /\ <<state'.passwords, state'.categories, state'.settings>>
               # <<state.passwords, state.categories, state.settings>>)
          => /\ Len(pendingSaves') = Len(pendingSaves) + 1
             /\ Last(pendingSaves').data
                    = Stringify(state'.passwords, state'.categories,
                                state'.settings)]_vars

----------------------------------------------------------------------------
(* Properties of the ways into a session.                                   *)

\* The step called op(arg); every other step leaves ret at None.
Called(op, arg) ==
    /\ ret' # None
    /\ The(ret').op = op
    /\ The(ret').arg = arg

\* The blob stored for passphrase p decrypts with p.
Opens(vl, p) ==
    /\ vl[getUserStorageKey(getUserHash(p))] # None
    /\ Decrypt(The(vl[getUserStorageKey(getUserHash(p))]), p) # None

\* C4: the session becomes Unlocked only by a signup that stored a blob or by
\* a login that decrypted the stored blob with the passphrase given: after
\* the step the session holds a passphrase and the blob stored under the
\* session's user hash decrypts with it.  The biometric path is no exception.
C4_UnlockOnlyByDecryption ==
    [][(~state.isAuthenticated /\ state'.isAuthenticated)
          => /\ session'.masterPassword # Null
             /\ session'.currentUserHash = getUserHash(session'.masterPassword)
             /\ Opens(vault', session'.masterPassword)]_vars

\* C5: login(w), where w is not the passphrase of a stored vault (no blob
\* under its hash, or a blob that does not decrypt, damaged ones included),
\* returns false and leaves the in-memory state, the session storage, the
\* blobs and the registry as they were; the session does not become Unlocked.
C5_WrongPassphraseChangesNothing ==
    [][\A w \in Pass \cup {""} :
          (Called("login", w) /\ ~Opens(vault, w))
              => /\ ~The(ret').ok
                 /\ ~state'.isAuthenticated
                 /\ UNCHANGED <<state, session, vault, users>>]_vars

\* C6: signup(p) when a blob is already stored under the hash of p returns
\* false, stores and overwrites no blob, adds no registry record, and leaves
\* the session Locked with its storage untouched.
C6_SignupOnExistingVaultFails ==
    [][\A p \in Pass :
          (Called("signup", p) /\ vault[getUserStorageKey(getUserHash(p))] # None)
              => /\ ~The(ret').ok
                 /\ ~state'.isAuthenticated
                 /\ UNCHANGED <<state, session, vault, users>>]_vars

\* A signup has just been refused for a passphrase whose blob is stored.
C6_Witness ==
    /\ ret # None
    /\ The(ret).op = "signup"
    /\ ~The(ret).ok
    /\ vault[getUserStorageKey(getUserHash(The(ret).arg))] # None

RegistryRecords(us, userHash) == {i \in 1..Len(us) : us[i].hash = userHash}

\* C7: signup(p) when no blob is stored under the hash of p returns true and
\* leaves a blob there that decrypts with p to the empty snapshot with the
\* default categories and settings, exactly one registry record for that
\* hash, and the session Unlocked on that vault with an empty entry list.
C7_SignupCreatesVault ==
    [][\A p \in Pass :
          (Called("signup", p) /\ vault[getUserStorageKey(getUserHash(p))] = None)
              => /\ The(ret').ok
                 /\ vault'[getUserStorageKey(getUserHash(p))] # None
                 /\ Decrypt(The(vault'[getUserStorageKey(getUserHash(p))]), p)
                        = Some(Stringify(<<>>, defaultCategories, defaultSettings))
                 /\ Cardinality(RegistryRecords(users', getUserHash(p))) = 1
                 /\ state'.isAuthenticated
                 /\ state'.passwords = <<>>
                 /\ session' = [masterPassword |-> p,
                                currentUserHash |-> getUserHash(p)]]_vars

\* A signup has just succeeded while the vault of another user was stored.
C7_Witness ==
    /\ ret # None
    /\ The(ret).op = "signup"
    /\ The(ret).ok
    /\ state.isAuthenticated
    /\ Len(users) = 2

----------------------------------------------------------------------------
(* Properties of locking.                                                   *)

\* C8: a logout, by the lock button or by the idle timer, leaves the
\* in-memory state at the initial state (not authenticated, no entries,
\* default categories, default settings), leaves neither masterPassword nor
\* currentUserHash in session storage, and changes no blob and no registry
\* record.
C8_LogoutResetsSession ==
    [][(state.isAuthenticated /\ ~state'.isAuthenticated)
          => /\ state' = initialState
             /\ state'.passwords = <<>>
             /\ state'.categories = defaultCategories
             /\ state'.settings = defaultSettings
             /\ session'.masterPassword = Null
             /\ session'.currentUserHash = Null
             /\ vault' = vault
             /\ users' = users]_vars

\* The idle timer has locked a session whose vault is stored, with a save of
\* a snapshot with an entry and changed settings still in flight.
C8_Witness ==
    /\ ~state.isAuthenticated
    /\ lockEvents = 1
    /\ session = noSession
    /\ vault[getUserStorageKey(getUserHash(Owner))] # None
    /\ \E i \in 1..Len(pendingSaves) :
          /\ Parse(pendingSaves[i].data).passwords # <<>>
          /\ Parse(pendingSaves[i].data).settings # defaultSettings
          /\ Parse(pendingSaves[i].data).categories # defaultCategories

\* C9: with autoLockMinutes at c > 0, a session left without an activity
\* signal for c minutes is eventually locked (it cannot stay Unlocked, at c
\* and idle for c minutes or more, for ever); and the idle timer locks only an
\* Unlocked session, once per Unlocked period: no second lock event comes from
\* a timer that a reset or a cleanup raced.
C9_AutoLockFiresOnce ==
    /\ [][lockEvents' = lockEvents + 1
             => /\ state.isAuthenticated
                /\ ~state'.isAuthenticated
                /\ lockEvents = 0
                /\ timers' = {}]_vars
    /\ \A c \in AutoLockOptions \ {0} :
          []<>(\/ ~state.isAuthenticated
               \/ state.settings.autoLockMinutes # c
               \/ idle < c)

\* The idle timer has locked a session that was set to lock after 5 minutes.
C9_Witness ==
    /\ ~state.isAuthenticated
    /\ lockEvents = 1
    /\ timers = {}
    /\ \E i \in 1..Len(pendingSaves) :
          Parse(pendingSaves[i].data).settings.autoLockMinutes = 5

\* C10: an activity signal restarts the idle interval (the one pending timer
\* is new and runs for autoLockMinutes), and the idle timer never locks the
\* session earlier than autoLockMinutes after the last signal.
C10_ActivityRestartsInterval ==
    [][/\ (state.isAuthenticated /\ state.settings.autoLockMinutes > 0
            /\ signalled' /\ idle' = 0 /\ state' = state /\ lockEvents' = lockEvents
            /\ (idle # 0 \/ ~signalled))
          => timers' = {[id |-> timeout',
                         delay |-> state.settings.autoLockMinutes,
                         elapsed |-> 0]}
       /\ lockEvents' = lockEvents + 1
          => /\ state.settings.autoLockMinutes > 0
             /\ idle >= state.settings.autoLockMinutes]_vars

\* The idle timer has locked a session in which an activity signal had
\* arrived.
C10_Witness ==
    /\ ~state.isAuthenticated
    /\ lockEvents = 1
    /\ signalled

\* C11: at most one idle timer is pending, and only while the session is
\* Unlocked with autoLockMinutes > 0, where it is the timer the effect holds
\* and runs for autoLockMinutes; a logout and a change of autoLockMinutes
\* leave no timer of before pending; with autoLockMinutes = 0 the timer never
\* locks the session.
C11_OneTimerOnlyWhileUnlocked ==
    /\ [](/\ Cardinality(timers) <= 1
          /\ timers # {} => /\ state.isAuthenticated
                            /\ state.settings.autoLockMinutes > 0
          /\ \A t \in timers : /\ t.id = timeout
                               /\ t.delay = state.settings.autoLockMinutes)
    /\ [][(state.isAuthenticated /\ ~state'.isAuthenticated) => timers' = {}]_vars
    /\ [][state'.settings.autoLockMinutes # state.settings.autoLockMinutes
             => \A t \in timers' : t.elapsed = 0]_vars
    /\ [][lockEvents' = lockEvents + 1 => state.settings.autoLockMinutes > 0]_vars

\* A session set to never lock has been idle for the longest interval with
\* no timer pending.
C11_Witness ==
    /\ state.isAuthenticated
    /\ state.settings.autoLockMinutes = 0
    /\ idle = IdleCap
    /\ timers = {}

----------------------------------------------------------------------------
(* Properties of the registry and of the stores.                            *)

\* C12: the registry holds at most one record per identity hash (the store,
\* a map from keys to blobs, holds at most one blob per hash), and a login of
\* a user who has a record sets that record's lastLogin to the time of the
\* login, adds no record and changes no hash, createdAt or hint.
C12_RegistryOneRecordPerHash ==
    /\ [](\A h \in Hashes : Cardinality(RegistryRecords(users, h)) <= 1)
    /\ [][\A p \in Pass :
             (/\ Called("login", p)
              /\ The(ret').ok
              /\ RegistryRecords(users, getUserHash(p)) # {})
                 => /\ Len(users') = Len(users)
                    /\ \A i \in 1..Len(users) :
                          users'[i] = IF users[i].hash = getUserHash(p)
                                      THEN [users[i] EXCEPT
                                               !.lastLogin = toISOString(now)]
                                      ELSE users[i]]_vars

\* A user's record shows a login on a later day than the signup, next to the
\* record of another user.
C12_Witness ==
    /\ Len(users) = 2
    /\ \E i \in 1..Len(users) : users[i].lastLogin # users[i].createdAt
    /\ ret # None
    /\ The(ret).op = "login"
    /\ The(ret).ok

\* C13: every value stored as biometric fallback data is an encrypted vault
\* blob that CryptoManager.encrypt produced; nothing else is ever stored
\* there.
C13_FallbackHoldsOnlyBlobs ==
    \A k \in StoreKeys :
        fallback[k] # None => The(fallback[k])[1] = "blob"

----------------------------------------------------------------------------
(* Properties of the entries in memory.                                     *)

Ids(pws) == [i \in 1..Len(pws) |-> pws[i].id]

\* C14: after any sequence of addPassword, updatePassword, deletePassword and
\* importData the entries in memory have pairwise distinct ids, and a step
\* that keeps the number of entries keeps the id of each.
C14_IdsDistinctAndImmutable ==
    [][/\ \A i, j \in 1..Len(state'.passwords) :
             state'.passwords[i].id = state'.passwords[j].id => i = j
       /\ Len(state'.passwords) = Len(state.passwords)
            => Ids(state'.passwords) = Ids(state.passwords)]_vars

\* C15: login restores the stored snapshot in full: after a login the
\* categories and the settings in memory are those of the snapshot the stored
\* blob decrypts to (so a category that was added and saved is there again).
C15_LoginRestoresCategoriesAndSettings ==
    [][\A p \in Pass :
          (UnlockedByLogin(getUserHash(p)) /\ Opens(vault, p))
              => LET snapshot ==
                         Parse(The(Decrypt(The(vault[getUserStorageKey(getUserHash(p))]),
                                           p)))
                 IN  /\ state'.categories = snapshot.categories
                     /\ state'.settings = snapshot.settings]_vars

----------------------------------------------------------------------------
(* Properties of the security analyzer.                                    *)

Reported(op) == report # None /\ The(report).op = op

\* The sum the strength rule prescribes for a secret.
StrengthRule(password) ==
    Min(100, (IF Len(password) >= 8 THEN 25 ELSE 0)
             + (IF Len(password) >= 12 THEN 25 ELSE 0)
             + (IF (\E i \in 1..Len(password) : password[i] \in Lower)
                   /\ (\E i \in 1..Len(password) : password[i] \in Upper)
                THEN 20 ELSE 0)
             + (IF \E i \in 1..Len(password) : password[i] \in Digit THEN 15 ELSE 0)
             + (IF \E i \in 1..Len(password) : password[i] \in Punctuation
                THEN 15 ELSE 0))

\* C16: the strength of a secret is min(100, 25 for length >= 8 + 25 for
\* length >= 12 + 20 for both a lowercase and an uppercase letter + 15 for a
\* digit + 15 for a punctuation symbol); it lies in 0..100 and a secret
\* extended by one more character never scores less.
C16_StrengthIsTheRuleSum ==
    Reported("calculatePasswordStrength") =>
        LET password == subject[The(report).arg].password
            score == The(report).value
        IN  /\ score = StrengthRule(password)
            /\ score \in 0..100
            /\ \A c \in Alphabet :
                   calculatePasswordStrength(Append(password, c)) >= score

C16_Witness ==
    /\ Reported("calculatePasswordStrength")
    /\ The(report).value = 100
    /\ Len(subject[1].password) = 12

ReferenceEntryScored ==
    /\ Reported("calculatePasswordStrength")
    /\ subject[The(report).arg].password = <<"a", "b", "c">>

\* C17: the entry of the reference scenario, whose secret is "abc", gets the
\* strength score 0: its three lower-case letters meet no length threshold
\* and no character class that scores.
C17_ReferenceEntryScoresZero ==
    ReferenceEntryScored => The(report).value = 0

C17_Witness == ReferenceEntryScored /\ The(report).value < 25

\* C17 as stated: the entry whose secret is "abc" gets the strength score 25.
C17_ReferenceEntryScores25 ==
    ReferenceEntryScored => The(report).value = 25

\* The entries of a collection whose secret another entry shares.
SharingEntries(passwords) ==
    {passwords[i] : i \in {k \in 1..Len(passwords) :
        \E j \in 1..Len(passwords) :
            j # k /\ passwords[j].password = passwords[k].password}}

\* C18: findReusedPasswords returns exactly the entries whose secret at least
\* two entries of the collection share, every member of such a group (the
\* first included) once and no entry with a unique secret; for the secrets
\* [x, x, y] the reused count is 2.
C18_ReusedAreAllGroupMembers ==
    Reported("findReusedPasswords") =>
        LET reused == The(report).value
        IN  /\ Range(reused) = SharingEntries(subject)
            /\ Len(reused) = Cardinality(SharingEntries(subject))
            /\ [i \in 1..Len(subject) |-> subject[i].password]
                   = <<(<<"x">>), (<<"x">>), (<<"y">>)>> => Len(reused) = 2

C18_Witness ==
    /\ Reported("findReusedPasswords")
    /\ [i \in 1..Len(subject) |-> subject[i].password]
           = <<(<<"x">>), (<<"x">>), (<<"y">>)>>
    /\ {e.id : e \in Range(The(report).value)} = {1, 2}

\* C19: isPasswordExpired(entry) is true exactly when the entry has an
\* explicit expiry and now is later than it, or it has none and now is later
\* than createdAt plus 90 days; with an explicit expiry that now has not
\* passed the entry is not expired however old it is.
C19_ExpiredIffPastExpiryOrWindow ==
    Reported("isPasswordExpired") =>
        LET entry == subject[The(report).arg]
            expired == The(report).value
        IN  /\ expired <=> \/ entry.expiryDate # None /\ now > The(entry.expiryDate)
                           \/ entry.expiryDate = None /\ now > entry.createdAt + 90
            /\ (entry.expiryDate # None /\ The(entry.expiryDate) >= now) => ~expired

C19_Witness ==
    /\ Reported("isPasswordExpired")
    /\ subject[1].expiryDate = Some(200)
    /\ now > subject[1].createdAt + 90
    /\ The(report).value = FALSE

\* The entries of the analysed collection that are weak, reused, expired and
\* compromised, as positions of the collection.
Weak == {i \in 1..Len(subject) : StrengthRule(subject[i].password) < 60}
Reused == {i \in 1..Len(subject) : subject[i] \in SharingEntries(subject)}
Expired ==
    {i \in 1..Len(subject) :
        \/ subject[i].expiryDate # None /\ now > The(subject[i].expiryDate)
        \/ subject[i].expiryDate = None /\ now > subject[i].createdAt + 90}
Compromised == {i \in 1..Len(subject) : subject[i].isCompromised}

\* C20: the aggregate score of analyzePasswordSecurity, as the fraction
\* num / den, is 100 - 30 weak/total - 25 reused/total - 20 expired/total
\* - 25 compromised/total clamped to [0, 100], weak meaning a strength below
\* 60; it is 100 for the empty collection, 0 when every entry is weak, reused,
\* expired and compromised, and lies in [0, 100] for every collection.
C20_AggregateScore ==
    Reported("analyzePasswordSecurity") =>
        LET score == The(report).value.securityScore
            total == Len(subject)
            all == 1..total
            sum == 100 * total - 30 * Cardinality(Weak) - 25 * Cardinality(Reused)
                       - 20 * Cardinality(Expired) - 25 * Cardinality(Compromised)
        IN  /\ total = 0 => score.num = 100 /\ score.den = 1
            /\ total > 0 => /\ score.den = total
                            /\ score.num = Max(0, Min(100 * total, sum))
            /\ (/\ total > 0 /\ Weak = all /\ Reused = all
                 /\ Expired = all /\ Compromised = all) => score.num = 0
            /\ score.den > 0
            /\ 0 <= score.num /\ score.num <= 100 * score.den

C20_Witness ==
    /\ Reported("analyzePasswordSecurity")
    /\ Len(subject) = 2
    /\ Weak = {1, 2} /\ Reused = {1, 2} /\ Expired = {1, 2} /\ Compromised = {1, 2}
    /\ The(report).value.securityScore.num = 0

BreachChecked == Reported("checkPasswordBreach")

\* C21: checkPasswordBreach never raises: when the digest, the request or the
\* reading of the response fails it resolves to false, and the security
\* report of the collection is what it was before the call.
C21_BreachCheckNeverRaises ==
    /\ [](BreachChecked =>
            /\ ~The(report).value.threw
            /\ The(report).arg.env.failure # "none" => The(report).value.value = FALSE)
    /\ [][BreachChecked' =>
              analyzePasswordSecurity(subject') = analyzePasswordSecurity(subject)]_vars

C21_Witness ==
    /\ BreachChecked
    /\ The(report).arg.env.failure = "fetch"
    /\ The(report).value.value = FALSE
    /\ Len(subject) = 2

\* Secrets to compare a checked secret with: as long as it, of one character.
Lookalikes(password) == {[i \in 1..Len(password) |-> c] : c \in Alphabet}

\* C22: the requests of a breach check depend only on the first 5 hex
\* characters of the SHA-1 digest of the secret: each is the range URL with
\* that prefix, a secret whose digest shares the prefix makes the same
\* requests, and neither the secret nor the other 35 characters of the digest
\* are part of a request.
C22_RequestCarriesOnlyThePrefix ==
    BreachChecked =>
        LET password == subject[The(report).arg.index].password
            env == The(report).arg.env
            digest == hashHex(password)
            prefix == SubSeq(digest, 1, 5)
        IN  /\ Len(outbound) <= 1
            /\ \A r \in Range(outbound) :
                   /\ r = RangeRequest(prefix)
                   /\ Len(r.path) = 5
                   /\ r.path # password
                   /\ \A k \in 1..(Len(r.path) - 34) :
                          SubSeq(r.path, k, k + 34) # SubSeq(digest, 6, 40)
            /\ \A other \in Lookalikes(password) \cup ReferenceSecrets :
                   SubSeq(hashHex(other), 1, 5) = prefix =>
                       checkPasswordBreach(other, env).requests = outbound

C22_Witness ==
    /\ BreachChecked
    /\ Len(outbound) = 1
    /\ \E other \in Lookalikes(subject[1].password) :
           /\ SubSeq(hashHex(other), 1, 5) = outbound[1].path
           /\ hashHex(other) # hashHex(subject[1].password)

----------------------------------------------------------------------------
(* Properties of CryptoManager.                                            *)

Encrypted == cipher # None /\ The(cipher).op = "encrypt"
Decrypted == cipher # None /\ The(cipher).op = "decrypt"

\* C23: for every plaintext p and passphrase k, encrypt(p, k) returns a blob
\* and decrypt of that blob with k returns p.
C23_DecryptInvertsEncrypt ==
    /\ Encrypted =>
           /\ The(cipher).result.error = Null
           /\ decrypt(The(The(cipher).result.value), The(cipher).key).value
                  = Some(The(cipher).data)
    /\ (/\ Decrypted /\ The(cipher).tamper.kind = "none"
         /\ The(cipher).password = The(cipher).key) =>
           The(cipher).result.value = Some(The(cipher).data)

\* C24: decrypt fails closed: on a blob with a byte of the salt, the nonce,
\* the ciphertext or the tag changed, on a cut or malformed blob, and with a
\* wrong passphrase it throws 'Invalid password or corrupted data' and
\* returns no plaintext; that is the only error it throws.
C24_DecryptFailsClosed ==
    Decrypted =>
        /\ (The(cipher).tamper.kind # "none" \/ The(cipher).password # The(cipher).key) =>
               /\ The(cipher).result.error = "Invalid password or corrupted data"
               /\ The(cipher).result.value = None
        /\ The(cipher).result.error \in {Null, "Invalid password or corrupted data"}
        /\ The(cipher).result.error # Null => The(cipher).result.value = None

C24_Witness ==
    /\ Decrypted
    /\ The(cipher).tamper = [kind |-> "flip", at |-> 0]
    /\ The(cipher).password = The(cipher).key
    /\ The(cipher).result.error = "Invalid password or corrupted data"

----------------------------------------------------------------------------
(* Properties of the vault: encoding, isolation, deletion, import.         *)

\* C25: the vault encoding round-trips: decoding the text a save encodes the
\* snapshot in memory to (JSON.parse of JSON.stringify, as login decodes it)
\* gives entries, with their Date-typed fields, categories and settings equal
\* to those of the snapshot.
C25_EncodingRoundTrips ==
    [][Len(pendingSaves') > Len(pendingSaves) =>
          LET decoded == Parse(Last(pendingSaves').data)
          IN  /\ decoded.passwords = state'.passwords
              /\ decoded.categories = state'.categories
              /\ decoded.settings = state'.settings]_vars

\* C26: vaults are isolated per passphrase: every save encrypts with a
\* passphrase p and stores under the identity hash of that p, and a stored
\* blob is stored under the identity hash of the passphrase that opens it;
\* so no session writes a blob another passphrase opens.
C26_VaultsIsolatedPerPassphrase ==
    /\ \A i \in 1..Len(pendingSaves) :
           pendingSaves[i].key = getUserHash(pendingSaves[i].master)
    /\ \A k \in StoreKeys :
           vault[k] # None =>
               /\ k = getUserStorageKey(getUserHash(The(vault[k]).key))
               /\ Decrypt(The(vault[k]), The(vault[k]).key) # None

\* C27: while no save is in flight, a blob is stored under a hash exactly
\* when the registry has a record for that hash; and a hash that has neither
\* (as after clearAllData) gets a blob or a record back only by a signup
\* with its passphrase.
C27_BlobIffRegistryRecord ==
    /\ [](pendingSaves = <<>> =>
             \A k \in StoreKeys :
                 vault[getUserStorageKey(k)] # None
                     <=> RegistryRecords(users, k) # {})
    /\ [][\A k \in StoreKeys :
              (/\ vault[getUserStorageKey(k)] = None
               /\ RegistryRecords(users, k) = {}
               /\ \/ vault'[getUserStorageKey(k)] # None
                  \/ RegistryRecords(users', k) # {})
                  => \E p \in Pass : Called("signup", p) /\ k = getUserHash(p)]_vars

\* C28: deleteUser(h) is final under every interleaving: once the session is
\* Locked and h has neither blob nor registry record, no step but a signup
\* with the passphrase of h stores a blob under h again (a save started
\* before the logout included), and that signup succeeds.
C28_DeleteUserIsFinal ==
    [][\A p \in Pass :
          (/\ ~state.isAuthenticated
           /\ vault[getUserStorageKey(getUserHash(p))] = None
           /\ RegistryRecords(users, getUserHash(p)) = {})
              => /\ vault'[getUserStorageKey(getUserHash(p))] # None
                     => Called("signup", p)
                 /\ Called("signup", p) => The(ret').ok]_vars

\* C29: whenever the session is Unlocked, session storage holds the master
\* passphrase and the identity hash of that passphrase, and a blob is stored
\* under that hash; so saveData skips no mutation.
C29_UnlockedSessionIsComplete ==
    state.isAuthenticated =>
        /\ session.masterPassword # Null
        /\ session.currentUserHash # Null
        /\ session.currentUserHash = getUserHash(session.masterPassword)
        /\ vault[getUserStorageKey(session.currentUserHash)] # None

\* The last step called importData.
Imported == ret # None /\ The(ret).op = "importData"

\* C30: importData(data) only adds: the entries in memory before the call
\* stay first, unchanged and in their order; after them come, in the file's
\* order, exactly the file's entries whose id was not in memory (those whose
\* id was are skipped); the categories stay; and when data.passwords is
\* missing or not an array nothing changes at all and no save starts.
C30_ImportOnlyAdds ==
    [][Imported' =>
          LET data == The(ret').arg
              old  == state.passwords
              new  == state'.passwords
          IN  IF isArray(data.passwords)
              THEN /\ Len(new) >= Len(old)
                   /\ SubSeq(new, 1, Len(old)) = old
                   /\ SubSeq(new, Len(old) + 1, Len(new))
                          = SelectSeqBy(data.passwords.items,
                                {p \in Range(data.passwords.items) :
                                    \A e \in Range(old) : e.id # p.id})
                   /\ state'.categories = state.categories
              ELSE UNCHANGED <<state, session, vault, users, pendingSaves,
                               timers, timeout>>]_vars

\* An import has just skipped an entry of the file whose id was in memory,
\* with other content, and appended another entry of the same file.
C30_Witness ==
    /\ Imported
    /\ isArray(The(ret).arg.passwords)
    /\ Len(state.passwords) = 2
    /\ \E p \in Range(The(ret).arg.passwords.items) :
           /\ p.id = state.passwords[1].id
           /\ p # state.passwords[1]
    /\ state.passwords[2] \in Range(The(ret).arg.passwords.items)
    /\ state.passwords[2].id # state.passwords[1].id

====
